---- MODULE Spec2Model ----
(***************************************************************************)
(* Model of qutebrowser/commands/parser.py: CommandParser.parse_all,       *)
(* _parse_all_gen, parse, _completion_match, _split_args and _get_alias.   *)
(*                                                                         *)
(* A Python str is a sequence of one-character strings.  The only          *)
(* whitespace character of the modelled alphabets is the space, so         *)
(* str.strip() and str.partition(' ') agree on what whitespace is.         *)
(***************************************************************************)
EXTENDS Integers, Sequences, FiniteSets, TLC

VARIABLES
    op,             \* which entry point this run calls
    pc,             \* position inside the call
    text,           \* the text argument as given by the caller
    fallback,       \* parse(..., fallback=)
    keep,           \* parse(..., keep=)
    best_match,     \* parse(..., best_match=)
    partial_match,  \* CommandParser._partial_match
    aliases,        \* the aliases argument (a map; empty is falsy)
    commands,       \* objects.commands, in iteration order
    cur,            \* the local `text` of _parse_all_gen
    sub_texts,      \* the local `sub_texts` of _parse_all_gen
    idx,            \* how many elements of sub_texts the for loop has taken
    yielded,        \* what the generator has yielded so far
    ret,            \* what the call returned or raised
    out,            \* the strings a helper called on its own returned
    parsed,         \* history: the texts handed to parse(), in order
    lookups         \* history: how many times _get_alias was called

vars == <<op, pc, text, fallback, keep, best_match, partial_match, aliases,
          commands, cur, sub_texts, idx, yielded, ret, out, parsed, lookups>>

----------------------------------------------------------------------------
(* Bounds of the model *)

\* longest text handed to parse_all
MaxTextLen == 4

\* longest text handed to parse
MaxParseLen == 5

\* most words of an argument string handed to _split_args
MaxArgWords == 4

\* largest Command.maxsplit
MaxSplit == 2

\* longest text handed to _get_alias
MaxAliasLen == 3

\* most commands of a registry handed to _completion_match
MaxRegistry == 3

----------------------------------------------------------------------------
(* Python str primitives *)

SP == " "

Delim == <<";", ";">>

Min(a, b) == IF a < b THEN a ELSE b

\* str.strip() / lstrip() / rstrip() for the whitespace of the alphabet
RECURSIVE LStrip(_)
LStrip(s) == IF s # <<>> /\ Head(s) = SP THEN LStrip(Tail(s)) ELSE s

RECURSIVE RStrip(_)
RStrip(s) ==
    IF s # <<>> /\ s[Len(s)] = SP THEN RStrip(SubSeq(s, 1, Len(s) - 1)) ELSE s

Strip(s) == RStrip(LStrip(s))

\* str.lstrip(':'): removes every leading colon
RECURSIVE LStripColon(_)
LStripColon(s) ==
    IF s # <<>> /\ Head(s) = ":" THEN LStripColon(Tail(s)) ELSE s

\* sub in s
Contains(sub, s) ==
    \E i \in 0..(Len(s) - Len(sub)) : SubSeq(s, i + 1, i + Len(sub)) = sub

\* str.startswith / str.endswith
StartsWith(s, p) == Len(p) <= Len(s) /\ SubSeq(s, 1, Len(p)) = p

EndsWith(s, p) ==
    Len(p) <= Len(s) /\ SubSeq(s, Len(s) - Len(p) + 1, Len(s)) = p

\* The least index at which sub occurs in s, 0 when it does not (str.find + 1)
Find(sub, s) ==
    IF Contains(sub, s)
    THEN 1 + CHOOSE i \in 0..(Len(s) - Len(sub)) :
                 /\ SubSeq(s, i + 1, i + Len(sub)) = sub
                 /\ \A j \in 0..(i - 1) : SubSeq(s, j + 1, j + Len(sub)) # sub
    ELSE 0

\* text.partition(' ')
Partition(s) ==
    LET i == Find(<<SP>>, s)
    IN  IF i = 0 THEN <<s, <<>>, <<>>>>
        ELSE <<SubSeq(s, 1, i - 1), <<SP>>, SubSeq(s, i + 1, Len(s))>>

\* text.split(';;'): non-overlapping occurrences, left to right
RECURSIVE SplitDelim(_)
SplitDelim(s) ==
    LET i == Find(Delim, s)
    IN  IF i = 0 THEN <<s>>
        ELSE <<SubSeq(s, 1, i - 1)>> \o SplitDelim(SubSeq(s, i + 2, Len(s)))

\* The maximal runs of non-whitespace of s from position i on, as <<first, last>>
RECURSIVE Spans(_, _)
Spans(s, i) ==
    IF i > Len(s) THEN <<>>
    ELSE IF s[i] = SP THEN Spans(s, i + 1)
    ELSE LET e == CHOOSE j \in i..Len(s) :
                      /\ \A k \in i..j : s[k] # SP
                      /\ (j = Len(s) \/ s[j + 1] = SP)
         IN  <<(<<i, e>>)>> \o Spans(s, e + 1)

\* text.strip().split(maxsplit=1)
SplitMax1(s) ==
    LET t == Strip(s)
        w == Spans(t, 1)
    IN  IF Len(w) = 0 THEN <<>>
        ELSE IF Len(w) = 1 THEN <<t>>
        ELSE <<SubSeq(t, 1, w[1][2]), SubSeq(t, w[2][1], Len(t))>>

\* ''.join(tokens) and ' '.join(tokens)
RECURSIVE Concat(_)
Concat(toks) == IF toks = <<>> THEN <<>> ELSE Head(toks) \o Concat(Tail(toks))

RECURSIVE JoinSpace(_)
JoinSpace(toks) ==
    IF toks = <<>> THEN <<>>
    ELSE IF Len(toks) = 1 THEN Head(toks)
    ELSE Head(toks) \o <<SP>> \o JoinSpace(Tail(toks))

----------------------------------------------------------------------------
(* qutebrowser.misc.split: the raw tokenizer, an external collaborator.     *)
(* On the quote-free alphabets of this model split() and simple_split()     *)
(* both cut at runs of whitespace.  maxsplit is a number of cuts, as in the *)
(* worked example of _split_args: maxsplit=2 leaves three tokens.  With     *)
(* keep, every token carries the whitespace in front of it and trailing     *)
(* whitespace is a token of its own, so the tokens concatenate to the input.*)

simple_split(s, keepws, bounded, maxsplit) ==
    LET w   == Spans(s, 1)
        n   == Len(w)
        cut == IF bounded THEN Min(maxsplit, n) ELSE n
        from(k) == IF k = 1 THEN 1 ELSE w[k - 1][2] + 1
        rest == IF cut = 0 THEN 1 ELSE w[cut][2] + 1
    IN  IF keepws
        THEN [k \in 1..cut |-> SubSeq(s, from(k), w[k][2])]
             \o (IF rest <= Len(s) THEN <<SubSeq(s, rest, Len(s))>> ELSE <<>>)
        ELSE [k \in 1..cut |-> SubSeq(s, w[k][1], w[k][2])]
             \o (IF cut < n
                 THEN <<RStrip(SubSeq(s, w[cut + 1][1], Len(s)))>>
                 ELSE <<>>)

split(s, keepws) == simple_split(s, keepws, FALSE, 0)

----------------------------------------------------------------------------
(* objects.commands: name -> Command, kept as a sequence in iteration order *)

Command(name, bounded, maxsplit, no_cmd_split, flags_with_args) ==
    [name |-> name, bounded |-> bounded, maxsplit |-> maxsplit,
     no_cmd_split |-> no_cmd_split, flags_with_args |-> flags_with_args]

Names(reg) == [i \in 1..Len(reg) |-> reg[i].name]

NameSet(reg) == {reg[i].name : i \in 1..Len(reg)}

\* objects.commands[cmdstr], for cmdstr a key
Lookup(reg, cmdstr) == reg[CHOOSE i \in 1..Len(reg) : reg[i].name = cmdstr]

----------------------------------------------------------------------------
(* CommandParser._completion_match *)

LongestName(names) ==
    IF names = <<>> THEN 0
    ELSE CHOOSE m \in {Len(names[i]) : i \in 1..Len(names)} :
             \A i \in 1..Len(names) : Len(names[i]) <= m

\* sorted() forgotten: the names in iteration order
Unsorted(names) == names

\* sorted(names, key=len): stable, so equal lengths keep iteration order
RECURSIVE ByLen(_, _, _)
ByLen(names, L, maxL) ==
    IF L > maxL THEN <<>>
    ELSE SelectSeq(names, LAMBDA n : Len(n) = L) \o ByLen(names, L + 1, maxL)

SortedByLen(names) == ByLen(names, 0, LongestName(names))

Matches(names, cmdstr) ==
    SelectSeq(SortedByLen(names), LAMBDA n : Contains(cmdstr, n))

completion_match(names, cmdstr, best) ==
    LET matches == Matches(names, cmdstr)
    IN  IF Len(matches) = 1 THEN matches[1]
        ELSE IF Len(matches) > 1 /\ best THEN matches[1]
        ELSE cmdstr

\* parse, lines 130-131: the command token the registry is asked for
MatchedCmdstr(names, partial, cmdstr, best) ==
    IF partial THEN completion_match(names, cmdstr, best) ELSE cmdstr

----------------------------------------------------------------------------
(* CommandParser._split_args *)

IsFlag(arg) == StartsWith(Strip(arg), <<"-">>)

\* The index (from 1) of the first token that is no flag, 0 when all are flags
FirstPositional(toks) ==
    IF \E i \in 1..Len(toks) : ~IsFlag(toks[i])
    THEN CHOOSE i \in 1..Len(toks) :
             ~IsFlag(toks[i]) /\ \A j \in 1..(i - 1) : IsFlag(toks[j])
    ELSE 0

\* flag_arg_count when the loop reaches the token at index i (from 1)
FlagArgCount(cmd, toks, i) ==
    Cardinality({j \in 1..(i - 1) : Strip(toks[j]) \in cmd.flags_with_args})

\* maxsplit = i + cmd.maxsplit, the flag arguments forgotten
SplitBoundNoFlagArgs(cmd, toks, i) == (i - 1) + cmd.maxsplit

\* maxsplit = i + cmd.maxsplit + flag_arg_count, i counted from 0
SplitBound(cmd, toks, i) == (i - 1) + cmd.maxsplit + FlagArgCount(cmd, toks, i)

split_args(cmd, argstr, keepws) ==
    IF argstr = <<>> THEN <<>>
    ELSE IF ~cmd.bounded THEN split(argstr, keepws)
    ELSE LET toks == simple_split(argstr, keepws, FALSE, 0)
             i    == FirstPositional(toks)
         IN  IF i = 0 THEN toks
             ELSE simple_split(argstr, keepws, TRUE, SplitBound(cmd, toks, i))

----------------------------------------------------------------------------
(* ParseResult, and what parse() raises *)

NoStr == <<>>

ParseResult(hasCmd, cmd, hasArgs, args, cmdline) ==
    [tag |-> "ok", kind |-> "", token |-> NoStr, hasCmd |-> hasCmd,
     cmd |-> cmd, hasArgs |-> hasArgs, args |-> args, cmdline |-> cmdline]

Raise(kind, token) ==
    [tag |-> "err", kind |-> kind, token |-> token, hasCmd |-> FALSE,
     cmd |-> NoStr, hasArgs |-> FALSE, args |-> <<>>, cmdline |-> <<>>]

\* NoSuchCommandError("No command given")
EmptyInput == "EmptyInput"

\* NoSuchCommandError("{}: no such command")
UnknownCommand == "UnknownCommand"

\* 'NoneType' object has no attribute 'no_cmd_split'
AttributeError == "AttributeError"

----------------------------------------------------------------------------
(* CommandParser.parse *)

\* lines 139-140 with args=[] in place of args=None
FallbackResultEmptyArgs(t, keepws) ==
    ParseResult(FALSE, NoStr, TRUE, <<>>, split(t, keepws))

\* lines 139-140
FallbackResult(t, keepws) ==
    ParseResult(FALSE, NoStr, FALSE, <<>>, split(t, keepws))

\* lines 143-148 with the separator left out of line 144
CmdlineNoSep(cmdstr, sep, args, keepws) ==
    IF keepws /\ args # <<>> THEN <<cmdstr>> \o args
    ELSE IF keepws THEN <<cmdstr, sep>>
    ELSE <<cmdstr>> \o args

\* lines 143-148
Cmdline(cmdstr, sep, args, keepws) ==
    IF keepws /\ args # <<>> THEN <<cmdstr, sep \o args[1]>> \o Tail(args)
    ELSE IF keepws THEN <<cmdstr, sep>>
    ELSE <<cmdstr>> \o args

parse(reg, partial, t, fb, keepws, best) ==
    LET p      == Partition(t)
        sep    == p[2]
        argstr == p[3]
        cmdstr == MatchedCmdstr(Names(reg), partial, p[1], best)
    IN  IF p[1] = <<>> /\ ~fb THEN Raise(EmptyInput, NoStr)
        ELSE IF cmdstr \notin NameSet(reg)
        THEN IF ~fb THEN Raise(UnknownCommand, cmdstr)
             ELSE FallbackResult(t, keepws)
        ELSE LET cmd  == Lookup(reg, cmdstr)
                 args == split_args(cmd, argstr, keepws)
             IN  ParseResult(TRUE, cmdstr, TRUE, args,
                             Cmdline(cmdstr, sep, args, keepws))

----------------------------------------------------------------------------
(* CommandParser._get_alias; an alias map is a function from keys to        *)
(* expansions                                                               *)

\* line 62 asking whether the first word starts with an alias instead of
\* whether it is one
get_alias_prefix(t, amap, default) ==
    LET parts == SplitMax1(t)
        keys  == {k \in DOMAIN amap : StartsWith(parts[1], k)}
    IN  IF keys = {} THEN default
        ELSE LET alias   == amap[CHOOSE k \in keys : TRUE]
                 new_cmd == IF Len(parts) > 1
                            THEN alias \o <<SP>> \o parts[2]
                            ELSE alias
             IN  IF EndsWith(t, <<SP>>) THEN new_cmd \o <<SP>> ELSE new_cmd

get_alias(t, amap, default) ==
    LET parts == SplitMax1(t)
    IN  IF parts[1] \notin DOMAIN amap THEN default
        ELSE LET alias   == amap[parts[1]]
                 new_cmd == IF Len(parts) > 1
                            THEN alias \o <<SP>> \o parts[2]
                            ELSE alias
             IN  IF EndsWith(t, <<SP>>) THEN new_cmd \o <<SP>> ELSE new_cmd

\* _parse_all_gen, lines 92-93
ResolveAlias(t, amap) ==
    IF DOMAIN amap # {} THEN get_alias(t, amap, t) ELSE t

----------------------------------------------------------------------------
(* CommandParser._parse_all_gen, driven by list() in parse_all *)

\* line 88 without the lstrip(':')
StripInputKeepColon(t) == Strip(t)

\* line 88
StripInput(t) == Strip(LStripColon(Strip(t)))

\* lines 100-103 with line 103 not stripping the pieces
SubTextsUnstripped(t, no_cmd_split) ==
    IF no_cmd_split THEN <<t>> ELSE SplitDelim(t)

\* lines 100-103 with line 101 keeping the first segment instead of the text
SubTextsFirstOnly(t, no_cmd_split) ==
    IF no_cmd_split THEN <<SplitDelim(t)[1]>>
    ELSE LET pieces == SplitDelim(t)
         IN  [i \in 1..Len(pieces) |-> Strip(pieces[i])]

\* lines 100-103
SubTexts(t, no_cmd_split) ==
    IF no_cmd_split THEN <<t>>
    ELSE LET pieces == SplitDelim(t)
         IN  [i \in 1..Len(pieces) |-> Strip(pieces[i])]

NoReturn == [tag |-> "none", kind |-> "", token |-> NoStr, results |-> <<>>]

Returned(results) ==
    [tag |-> "ok", kind |-> "", token |-> NoStr, results |-> results]

Raised(kind, token) ==
    [tag |-> "err", kind |-> kind, token |-> token, results |-> <<>>]

Parse(t) == parse(commands, partial_match, t, fallback, keep, best_match)

\* lines 88-93: strip the line, refuse an empty one, resolve the alias
Begin ==
    /\ op = "parse_all" /\ pc = "start"
    /\ LET t == StripInput(text)
       IN  IF t = <<>>
           THEN /\ ret' = Raised(EmptyInput, NoStr)
                /\ pc' = "done"
                /\ UNCHANGED <<cur, lookups>>
           ELSE /\ cur' = ResolveAlias(t, aliases)
                /\ lookups' = IF DOMAIN aliases # {} THEN lookups + 1 ELSE lookups
                /\ pc' = "split"
                /\ ret' = ret
    /\ UNCHANGED <<op, text, fallback, keep, best_match, partial_match, aliases,
                   commands, sub_texts, idx, yielded, out, parsed>>

\* lines 95-105: decide the sub-texts, parsing the first segment on ';;'
Split ==
    /\ op = "parse_all" /\ pc = "split"
    /\ IF Contains(Delim, cur)
       THEN LET first  == SplitDelim(cur)[1]
                result == Parse(first)
            IN  /\ parsed' = Append(parsed, first)
                /\ IF result.tag = "err"
                   THEN /\ ret' = Raised(result.kind, result.token)
                        /\ pc' = "done"
                        /\ UNCHANGED sub_texts
                   ELSE IF ~result.hasCmd
                   THEN /\ ret' = Raised(AttributeError, NoStr)
                        /\ pc' = "done"
                        /\ UNCHANGED sub_texts
                   ELSE /\ sub_texts' =
                              SubTexts(cur, Lookup(commands, result.cmd).no_cmd_split)
                        /\ pc' = "loop"
                        /\ ret' = ret
       ELSE /\ sub_texts' = <<cur>>
            /\ pc' = "loop"
            /\ UNCHANGED <<ret, parsed>>
    /\ UNCHANGED <<op, text, fallback, keep, best_match, partial_match, aliases,
                   commands, cur, idx, yielded, out, lookups>>

\* lines 106-107 with a failing sub-command skipped instead of raised
YieldNextSkipFailed ==
    /\ op = "parse_all" /\ pc = "loop" /\ idx < Len(sub_texts)
    /\ LET sub    == sub_texts[idx + 1]
           result == Parse(sub)
       IN  /\ parsed' = Append(parsed, sub)
           /\ yielded' = IF result.tag = "err" THEN yielded
                         ELSE Append(yielded, result)
           /\ idx' = idx + 1
           /\ UNCHANGED <<ret, pc>>
    /\ UNCHANGED <<op, text, fallback, keep, best_match, partial_match, aliases,
                   commands, cur, sub_texts, out, lookups>>

\* lines 106-107: one iteration of the for loop; an exception ends list()
YieldNext ==
    /\ op = "parse_all" /\ pc = "loop" /\ idx < Len(sub_texts)
    /\ LET sub    == sub_texts[idx + 1]
           result == Parse(sub)
       IN  /\ parsed' = Append(parsed, sub)
           /\ IF result.tag = "err"
              THEN /\ ret' = Raised(result.kind, result.token)
                   /\ pc' = "done"
                   /\ UNCHANGED <<idx, yielded>>
              ELSE /\ yielded' = Append(yielded, result)
                   /\ idx' = idx + 1
                   /\ UNCHANGED <<ret, pc>>
    /\ UNCHANGED <<op, text, fallback, keep, best_match, partial_match, aliases,
                   commands, cur, sub_texts, out, lookups>>

\* line 111: the generator is exhausted and list() returns what it collected
Return ==
    /\ op = "parse_all" /\ pc = "loop" /\ idx = Len(sub_texts)
    /\ ret' = Returned(yielded)
    /\ pc' = "done"
    /\ UNCHANGED <<op, text, fallback, keep, best_match, partial_match, aliases,
                   commands, cur, sub_texts, idx, yielded, out, parsed, lookups>>

----------------------------------------------------------------------------
(* The helpers and parse() called on their own *)

\* CommandParser.parse called by a client
ParseCall ==
    /\ op = "parse" /\ pc = "start"
    /\ LET result == Parse(text)
       IN  ret' = IF result.tag = "err"
                  THEN Raised(result.kind, result.token)
                  ELSE Returned(<<result>>)
    /\ parsed' = Append(parsed, text)
    /\ pc' = "done"
    /\ UNCHANGED <<op, text, fallback, keep, best_match, partial_match, aliases,
                   commands, cur, sub_texts, idx, yielded, out, lookups>>

\* CommandParser._split_args(commands[1], text, keep)
SplitArgsCall ==
    /\ op = "split_args" /\ pc = "start"
    /\ out' = split_args(commands[1], text, keep)
    /\ pc' = "done"
    /\ UNCHANGED <<op, text, fallback, keep, best_match, partial_match, aliases,
                   commands, cur, sub_texts, idx, yielded, ret, parsed, lookups>>

\* parse, lines 130-131, for the command token `text`
MatchCall ==
    /\ op = "match" /\ pc = "start"
    /\ out' = <<MatchedCmdstr(Names(commands), partial_match, text, best_match)>>
    /\ pc' = "done"
    /\ UNCHANGED <<op, text, fallback, keep, best_match, partial_match, aliases,
                   commands, cur, sub_texts, idx, yielded, ret, parsed, lookups>>

\* The alias resolver, lines 92-93, applied to a text and then to its own output
AliasCall ==
    /\ op = "alias" /\ pc \in {"start", "once"}
    /\ LET t == IF pc = "start" THEN text ELSE out[Len(out)]
       IN  out' = Append(out, ResolveAlias(t, aliases))
    /\ lookups' = IF DOMAIN aliases # {} THEN lookups + 1 ELSE lookups
    /\ pc' = IF pc = "start" THEN "once" ELSE "done"
    /\ UNCHANGED <<op, text, fallback, keep, best_match, partial_match, aliases,
                   commands, cur, sub_texts, idx, yielded, ret, parsed>>

----------------------------------------------------------------------------
(* Inputs *)

Seqs(S, n) == UNION {[1..k -> S] : k \in 0..n}

NoAliases == [k \in {} |-> NoStr]

InitLocals ==
    /\ pc = "start"
    /\ cur = <<>>
    /\ sub_texts = <<>>
    /\ idx = 0
    /\ yielded = <<>>
    /\ ret = NoReturn
    /\ out = <<>>
    /\ parsed = <<>>
    /\ lookups = 0

\* parse_all: lines over a command letter, the space, ';' and ':'
Chars == {"o", SP, ";", ":"}

\* "o" splits on ';;' and "o:" does not, or the other way round
RegSplit ==
    <<Command(<<"o">>, FALSE, 0, FALSE, {}),
      Command(<<"o", ":">>, TRUE, 1, TRUE, {})>>

RegNoSplit ==
    <<Command(<<"o">>, FALSE, 0, TRUE, {}),
      Command(<<"o", ":">>, TRUE, 0, FALSE, {})>>

\* oo -> "o;;:;;o" and ;o -> "o ;; o o;;o"
CompoundAliases ==
    (<<"o", "o">> :> <<"o", ";", ";", ":", ";", ";", "o">>)
    @@ (<<";", "o">> :>
           <<"o", SP, ";", ";", SP, "o", SP, "o", ";", ";", "o">>)

Init ==
    /\ op = "parse_all"
    /\ text \in Seqs(Chars, MaxTextLen)
    /\ fallback \in BOOLEAN
    /\ keep \in BOOLEAN
    /\ best_match \in BOOLEAN
    /\ partial_match \in BOOLEAN
    /\ aliases \in {NoAliases, CompoundAliases}
    /\ commands \in {RegSplit, RegNoSplit}
    /\ InitLocals

Next == Begin \/ Split \/ YieldNext \/ Return

Spec == Init /\ [][Next]_vars

\* parse: texts over a command letter, the flag marker and the space
ParseChars == {"o", "-", SP}

RegParse ==
    <<Command(<<"o">>, FALSE, 0, FALSE, {}),
      Command(<<"o", "-", "o">>, TRUE, 1, FALSE, {<<"-", "o">>})>>

InitParse ==
    /\ op = "parse"
    /\ text \in Seqs(ParseChars, MaxParseLen)
    /\ fallback \in BOOLEAN
    /\ keep \in BOOLEAN
    /\ best_match \in BOOLEAN
    /\ partial_match \in BOOLEAN
    /\ aliases = NoAliases
    /\ commands = RegParse
    /\ InitLocals

NextParse == ParseCall

SpecParse == InitParse /\ [][NextParse]_vars

\* parse_all and parse together: every place a ParseResult comes from
InitResults == Init \/ InitParse

NextResults == Next \/ NextParse

SpecResults == InitResults /\ [][NextResults]_vars

\* _split_args: argument strings of words, one or two spaces apart
Words ==
    {<<"-", "-", "f", "o", "o">>, <<"-", "v">>, <<"b", "a", "r">>,
     <<"b", "a", "z">>}

RECURSIVE JoinWith(_, _)
JoinWith(toks, sep) ==
    IF toks = <<>> THEN <<>>
    ELSE IF Len(toks) = 1 THEN Head(toks)
    ELSE Head(toks) \o sep \o JoinWith(Tail(toks), sep)

\* "--foo -v bar baz qux"
BoundedSplitExample ==
    JoinWith(<<(<<"-", "-", "f", "o", "o">>), <<"-", "v">>, <<"b", "a", "r">>,
               <<"b", "a", "z">>, <<"q", "u", "x">>>>, <<SP>>)

ArgStrings ==
    {JoinWith(ws, sep) : ws \in Seqs(Words, MaxArgWords),
                         sep \in {<<SP>>, <<SP, SP>>}}
    \cup {BoundedSplitExample}

SplitCommands ==
    {Command(<<"o">>, b, m, FALSE, f) :
        b \in BOOLEAN, m \in 0..MaxSplit, f \in {{}, {<<"-", "v">>}}}

InitSplit ==
    /\ op = "split_args"
    /\ text \in ArgStrings
    /\ keep \in BOOLEAN
    /\ \E c \in SplitCommands : (c.bounded \/ c.maxsplit = 0) /\ commands = <<c>>
    /\ fallback = FALSE
    /\ best_match = FALSE
    /\ partial_match = FALSE
    /\ aliases = NoAliases
    /\ InitLocals

NextSplit == SplitArgsCall

SpecSplit == InitSplit /\ [][NextSplit]_vars

\* _completion_match: registries in every iteration order
NamePool ==
    {<<"o">>, <<"o", "a">>, <<"o", "b">>, <<"b">>, <<"a", "b", "o">>}

TokenPool == {<<>>, <<"o">>, <<"a">>, <<"b">>, <<"o", "b">>, <<"x">>}

Injective(q) == \A i, j \in 1..Len(q) : q[i] = q[j] => i = j

InitMatch ==
    /\ op = "match"
    /\ text \in TokenPool
    /\ best_match \in BOOLEAN
    /\ partial_match \in BOOLEAN
    /\ \E q \in Seqs(NamePool, MaxRegistry) :
           /\ Injective(q)
           /\ commands = [i \in 1..Len(q) |-> Command(q[i], FALSE, 0, FALSE, {})]
    /\ fallback = FALSE
    /\ keep = FALSE
    /\ aliases = NoAliases
    /\ InitLocals

NextMatch == MatchCall

SpecMatch == InitMatch /\ [][NextMatch]_vars

\* the alias resolver: keys without whitespace, expansions that are command
\* lines (non-empty, no surrounding whitespace), texts holding a word
AliasChars == {"k", "z", SP}

Expansions ==
    {<<"z">>, <<"k">>, <<"z", SP, "k">>, <<"k", SP, "z">>,
     <<"k", "z", SP, "z">>, <<"z", "z">>}

AliasMaps ==
    {(<<"k">> :> e) : e \in Expansions}
    \cup {(<<"k">> :> e) @@ (<<"z">> :> <<"k", "k">>) : e \in Expansions}

InitAlias ==
    /\ op = "alias"
    /\ text \in {t \in Seqs(AliasChars, MaxAliasLen) : Strip(t) # <<>>}
    /\ aliases \in AliasMaps
    /\ commands = <<>>
    /\ fallback = FALSE
    /\ keep = FALSE
    /\ best_match = FALSE
    /\ partial_match = FALSE
    /\ InitLocals

NextAlias == AliasCall

SpecAlias == InitAlias /\ [][NextAlias]_vars

----------------------------------------------------------------------------
(* Properties of parse_all, checked under Spec *)

\* The pieces of the resolved text between the ';;', each trimmed
Pieces == LET q == SplitDelim(cur) IN [i \in 1..Len(q) |-> Strip(q[i])]

Compound == Contains(Delim, cur)

FirstResult == Parse(SplitDelim(cur)[1])

FirstHasCommand == FirstResult.tag = "ok" /\ FirstResult.hasCmd

FirstNoSplit ==
    FirstHasCommand /\ Lookup(commands, FirstResult.cmd).no_cmd_split

FirstSplits ==
    FirstHasCommand /\ ~Lookup(commands, FirstResult.cmd).no_cmd_split

Failing == {i \in 1..Len(Pieces) : Parse(Pieces[i]).tag = "err"}

LeftmostFailing == CHOOSE i \in Failing : \A j \in Failing : i <= j

\* What the caller of parse_all gets: the results of the list, or the one error
Outcomes ==
    IF ret.tag = "ok" THEN ret.results ELSE <<Raise(ret.kind, ret.token)>>

C2_FallbackNeverFails ==
    /\ (pc = "done" /\ fallback /\ StripInput(text) # <<>>) =>
           /\ ret.tag = "ok"
           /\ \A j \in 1..Len(ret.results) :
                  ~ret.results[j].hasCmd =>
                      /\ ~ret.results[j].hasArgs
                      /\ ret.results[j].cmdline = split(sub_texts[j], keep)
    /\ pc = "done" => ret.kind \in {"", EmptyInput, UnknownCommand}

NoSplitExample == <<"o", SP, ";", ";", SP, "o", SP, "o", ";", ";", "o">>

\* C5: when the command of the first segment declares no_cmd_split, parse_all
\* gives exactly one outcome, the parse of the whole text, so that the ';;'
\* are argument text: with unrestricted splitting "o ;; o o;;o" has the
\* arguments ";;", "o", "o;;o".
C5_NoSplitParsesWhole ==
    (pc = "done" /\ Compound /\ FirstNoSplit) =>
        /\ Outcomes = <<Parse(cur)>>
        /\ parsed = <<SplitDelim(cur)[1], cur>>
        /\ (cur = NoSplitExample /\ commands = RegNoSplit /\ ~keep) =>
               /\ ret.tag = "ok"
               /\ ret.results[1].args =
                      <<Delim, <<"o">>, <<"o", ";", ";", "o">>>>

\* A text with two ';;' parsed as one command
C5_Witness ==
    /\ pc = "done" /\ Compound /\ FirstNoSplit
    /\ Len(SplitDelim(cur)) >= 3
    /\ ret.tag = "ok" /\ Len(ret.results) = 1 /\ ret.results[1].hasCmd
    /\ Len(ret.results[1].args) >= 3

\* whitespace, then colons, then whitespace, and nothing else
IsBlankLine(t) ==
    \E i \in 0..Len(t) : \E j \in i..Len(t) :
        /\ \A k \in 1..i : t[k] = SP
        /\ \A k \in (i + 1)..j : t[k] = ":"
        /\ \A k \in (j + 1)..Len(t) : t[k] = SP

\* C10: a text that is empty after stripping whitespace and the leading ':'
\* makes parse_all fail with EmptyInput, whatever fallback, keep, best_match
\* and the alias map are, before any alias lookup or parse and with no result.
C10_EmptyInput ==
    (op = "parse_all" /\ IsBlankLine(text)) =>
        /\ pc \in {"start", "done"}
        /\ lookups = 0 /\ parsed = <<>> /\ yielded = <<>>
        /\ pc = "done" => ret = Raised(EmptyInput, NoStr)

\* A line of colons and spaces refused although fallback is on and aliases
\* are given
C10_Witness ==
    /\ pc = "done" /\ IsBlankLine(text) /\ Contains(<<":">>, text)
    /\ Contains(<<SP>>, text)
    /\ fallback /\ aliases # NoAliases
    /\ ret.kind = EmptyInput

----------------------------------------------------------------------------
(* Properties of every ParseResult, checked under SpecResults *)

\* The results produced so far, and the text each was parsed from
Produced == IF op = "parse" THEN ret.results ELSE yielded

Source(j) == IF op = "parse" THEN text ELSE sub_texts[j]

\* C3 as claimed: in every result an absent command comes with absent
\* arguments, a present command with present arguments, and cmdline is never
\* empty.
C3_CmdlineNeverEmpty ==
    \A j \in 1..Len(Produced) :
        /\ Produced[j].hasCmd <=> Produced[j].hasArgs
        /\ Produced[j].cmdline # <<>>

\* C3 amended: in every result an absent command comes with absent arguments
\* and a present command with present arguments; cmdline is present, starts
\* with the command name when the command is present, and is the raw
\* tokenization of the text (empty for an empty text) when it is absent.
C3_ResultShape ==
    \A j \in 1..Len(Produced) :
        LET r == Produced[j]
        IN  /\ r.tag = "ok"
            /\ r.hasCmd <=> r.hasArgs
            /\ r.hasCmd => (r.cmdline # <<>> /\ r.cmdline[1] = r.cmd
                            /\ r.cmd \in NameSet(commands))
            /\ ~r.hasCmd => (fallback /\ r.args = <<>>
                             /\ r.cmdline = split(Source(j), keep))

\* parse_all returned a result with a command and a fallback result whose
\* cmdline is empty
C3_Witness ==
    /\ pc = "done" /\ ret.tag = "ok"
    /\ \E j \in 1..Len(ret.results) : ret.results[j].hasCmd
    /\ \E j \in 1..Len(ret.results) :
           ~ret.results[j].hasCmd /\ ret.results[j].cmdline = <<>>

----------------------------------------------------------------------------
(* Properties of parse, checked under SpecParse *)

\* The command token as typed: the text up to its first space
TypedToken == Partition(text)[1]

AfterToken == SubSeq(text, Len(TypedToken) + 1, Len(text))

ParsedCommand ==
    op = "parse" /\ pc = "done" /\ ret.tag = "ok" /\ ret.results[1].hasCmd

\* C7 as claimed: with keep=true and a registered command, cmdline joined
\* with single spaces is the text up to surrounding whitespace.
C7_JoinWithSpaces ==
    (ParsedCommand /\ keep) =>
        Strip(JoinSpace(ret.results[1].cmdline)) = Strip(text)

\* C7 amended: with keep=true and a registered command, cmdline joined with
\* the empty string is the text, character for character, with the command
\* token replaced by the command name partial matching resolved it to (so it
\* is the text itself when partial matching is off).
C7_ConcatRoundTrip ==
    (ParsedCommand /\ keep) =>
        /\ Concat(ret.results[1].cmdline) = ret.results[1].cmd \o AfterToken
        /\ ~partial_match => Concat(ret.results[1].cmdline) = text

\* A kept command line with two arguments and a run of two spaces
C7_Witness ==
    /\ ParsedCommand /\ keep /\ ~partial_match
    /\ Len(ret.results[1].args) >= 2
    /\ Contains(<<SP, SP>>, text)

----------------------------------------------------------------------------
(* Properties of _split_args, checked under SpecSplit *)

AllWords(t) ==
    LET w == Spans(t, 1) IN [k \in 1..Len(w) |-> SubSeq(t, w[k][1], w[k][2])]

\* index of the first word that does not begin with '-', 0 when there is none
FirstNonFlag(ws) ==
    IF \E i \in 1..Len(ws) : ws[i][1] # "-"
    THEN CHOOSE i \in 1..Len(ws) :
             ws[i][1] # "-" /\ \A j \in 1..(i - 1) : ws[j][1] = "-"
    ELSE 0

\* index of the first non-flag word counted from 0, plus maxsplit, plus the
\* number of flags before it that take an argument
Boundary(cmd, ws) ==
    LET i == FirstNonFlag(ws)
    IN  (i - 1) + cmd.maxsplit
        + Cardinality({j \in 1..(i - 1) : ws[j] \in cmd.flags_with_args})

SplitDone == op = "split_args" /\ pc = "done"

\* the words from the boundary on are one token, the words before it are
\* tokens of their own, and flags alone are never joined
BoundedSplit ==
    (SplitDone /\ commands[1].bounded /\ text # <<>>) =>
        LET ws == AllWords(text)
            b  == Boundary(commands[1], ws)
        IN  IF FirstNonFlag(ws) = 0
            THEN [k \in 1..Len(out) |-> Strip(out[k])] = ws
            ELSE /\ Len(out) = Min(Len(ws), b + 1)
                 /\ \A k \in 1..Min(b, Len(ws)) : Strip(out[k]) = ws[k]
                 /\ Len(ws) > b =>
                        Strip(out[b + 1]) =
                            SubSeq(text, Spans(text, 1)[b + 1][1], Len(text))

ExampleCall(m) ==
    /\ SplitDone /\ text = BoundedSplitExample /\ ~keep
    /\ commands[1].bounded /\ commands[1].maxsplit = m
    /\ commands[1].flags_with_args = {<<"-", "v">>}

\* C6 as claimed: with maxsplit=2 and -v taking an argument,
\* "--foo -v bar baz qux" splits into "--foo", "-v", "bar", "baz qux"; and the
\* boundary rule holds in general.
C6_ExampleJoinsBazQux ==
    /\ BoundedSplit
    /\ ExampleCall(2) =>
           out = <<(<<"-", "-", "f", "o", "o">>), <<"-", "v">>,
                   <<"b", "a", "r">>, <<"b", "a", "z", SP, "q", "u", "x">>>>

\* C6 amended: the boundary rule holds in general; for "--foo -v bar baz qux"
\* with maxsplit=2 and -v taking an argument the boundary is 2 + 2 + 1 = 5, so
\* the five words stay five tokens, and it is maxsplit=0 that gives "--foo",
\* "-v", "bar", "baz qux".
C6_BoundedSplit ==
    /\ BoundedSplit
    /\ ExampleCall(2) =>
           out = <<(<<"-", "-", "f", "o", "o">>), <<"-", "v">>,
                   <<"b", "a", "r">>, <<"b", "a", "z">>, <<"q", "u", "x">>>>
    /\ ExampleCall(0) =>
           out = <<(<<"-", "-", "f", "o", "o">>), <<"-", "v">>,
                   <<"b", "a", "r">>, <<"b", "a", "z", SP, "q", "u", "x">>>>

\* The example of the claim has been split
C6_Witness == ExampleCall(2) /\ Len(out) = 5

----------------------------------------------------------------------------
(* Properties of _completion_match, checked under SpecMatch *)

Candidates == {n \in NameSet(commands) : Contains(text, n)}

Position(n) == CHOOSE i \in 1..Len(commands) : commands[i].name = n

CharRank(c) == CASE c = "a" -> 1 [] c = "b" -> 2 [] c = "o" -> 3 [] OTHER -> 4

RECURSIVE LexLeq(_, _)
LexLeq(a, b) ==
    IF a = <<>> THEN TRUE
    ELSE IF b = <<>> THEN FALSE
    ELSE IF Head(a) # Head(b) THEN CharRank(Head(a)) < CharRank(Head(b))
    ELSE LexLeq(Tail(a), Tail(b))

\* All of the claim but the order among matches of equal length
MatchRule ==
    (op = "match" /\ pc = "done") =>
        /\ ~partial_match => out[1] = text
        /\ (partial_match /\ Cardinality(Candidates) = 1) =>
               out[1] \in Candidates
        /\ (partial_match /\ Cardinality(Candidates) > 1 /\ best_match) =>
               /\ out[1] \in Candidates
               /\ \A n \in Candidates : Len(out[1]) <= Len(n)
        /\ (partial_match /\ Cardinality(Candidates) > 1 /\ ~best_match) =>
               out[1] = text
        /\ (partial_match /\ Candidates = {}) => out[1] = text

BestOfSeveral ==
    /\ op = "match" /\ pc = "done" /\ partial_match /\ best_match
    /\ Cardinality(Candidates) > 1

\* C9 as claimed: among the shortest matches the one first in the lexical
\* order of the names is taken.
C9_TiesLexical ==
    /\ MatchRule
    /\ BestOfSeveral =>
           \A n \in Candidates : Len(n) = Len(out[1]) => LexLeq(out[1], n)

\* C9 amended: among the shortest matches the one first in the iteration
\* order of the registry is taken; the rest of the claim stands.
C9_TiesRegistryOrder ==
    /\ MatchRule
    /\ BestOfSeveral =>
           \A n \in Candidates :
               Len(n) = Len(out[1]) => Position(out[1]) <= Position(n)

\* Two shortest matches, the one registered first not the lexically first
C9_Witness ==
    /\ BestOfSeveral
    /\ out[1] = <<"o", "b">>
    /\ <<"o", "a">> \in Candidates
    /\ \E n \in Candidates : Len(n) > 2

----------------------------------------------------------------------------
(* Properties of the alias resolver, checked under SpecAlias *)

FirstWord(t) == SplitMax1(t)[1]

HeadIsAlias == FirstWord(text) \in DOMAIN aliases

\* the expansion used for the text begins with an alias key
ExpansionBeginsWithKey ==
    HeadIsAlias /\ FirstWord(aliases[FirstWord(text)]) \in DOMAIN aliases

\* C8: resolving the output of the resolver again with the same alias map
\* returns it unchanged, unless the expansion begins with an alias key; a
\* text whose first word is no alias is returned unchanged the first time.
C8_ResolveTwice ==
    (op = "alias" /\ Len(out) >= 1) =>
        /\ ~HeadIsAlias => out[1] = text
        /\ (Len(out) = 2 /\ ~ExpansionBeginsWithKey) => out[2] = out[1]

\* An alias was expanded and the second pass left the expansion alone
C8_Witness ==
    /\ op = "alias" /\ pc = "done" /\ Len(out) = 2
    /\ HeadIsAlias /\ ~ExpansionBeginsWithKey
    /\ out[1] # text /\ out[2] = out[1]
    /\ Len(SplitMax1(text)) = 2

====
